---- MODULE Spec2Model ----
(***************************************************************************)
(* The agent orchestration loop of Sentient Studio: runAgentLoop and       *)
(* executeTool (lib/ai/gemini.ts) driven through the streaming agent       *)
(* route (app/api/agent/route.ts), the dashboard's stopAgent, and the      *)
(* profile normalisation validateAndSanitizeConstitution.                  *)
(*                                                                         *)
(* The remote model, the image service, the audit service and the search   *)
(* service are the environment: every reply they can give is a             *)
(* nondeterministic choice.                                                *)
(***************************************************************************)
EXTENDS Integers, Sequences, FiniteSets, TLC

VARIABLES
    pc,                \* position of runAgentLoop / the route's background task
    state,             \* AgentState without history (the object `state` refers to)
    history,           \* state.history: one array shared by every copy of the state
    canvasElements,    \* number of canvas elements supplied by the caller
    savedConstitution, \* the cached profile supplied by the caller, or "null"
    response,          \* the latest model turn received
    i,                 \* loop index of the for-loop
    initialRetry,      \* retry counter of the initial message
    retryCount,        \* retry counter of the current send of function responses
    functionCalls,     \* the tool calls of the turn being processed
    dispatchState,     \* the state object handed to every executor of the batch
    toolResults,       \* settled executors: index -> [result, newState]
    finishOrder,       \* indices of the settled executors, in completion order
    functionResponses, \* the batch of summarized results built by the merge loop
    bundle,            \* the value runAgentLoop returned
    thrown,            \* why runAgentLoop threw ("none" while it has not)
    events,            \* the SSE events written by the route, in order
    stream,            \* the route's writer: "idle", "open", "closed"
    exchanges,         \* number of turn exchanges started (messages to the model)
    toolTurns,         \* number of model turns received that carried tool calls
    maxCalls,          \* largest number of tool calls seen in one turn
    histAtDispatch,    \* Len(history) when the current batch was dispatched
    latestImage,       \* the image of the latest generate_image call that succeeded
    chat,              \* the history of the chat session model.startChat() opened
    elements,          \* the canvas elements handed to analyzeCanvasForConstitution
    contentParts,      \* the parts of the style-extraction request built from them
    written,           \* the events the route wrote to the stream the dashboard reads
    wire,              \* the part of the byte stream the dashboard has not read yet
    buffer,            \* the dashboard reader's buffer: the unfinished last line
    handled,           \* the events the dashboard reader handed to its handler
    aborted,           \* the caller aborted the request (dashboard stopAgent)
    rawResponse,       \* the parsed reply handed to validateAndSanitizeConstitution
    sanitized          \* the profile validateAndSanitizeConstitution returned

vars == <<pc, state, history, canvasElements, savedConstitution, response, i,
          initialRetry, retryCount, functionCalls, dispatchState, toolResults,
          finishOrder, functionResponses, bundle, thrown, events, stream,
          exchanges, toolTurns, maxCalls, histAtDispatch, latestImage, chat,
          elements, contentParts, written, wire, buffer, handled, aborted,
          rawResponse, sanitized>>

\* the variables the agent loop never writes
readerVars == <<written, wire, buffer, handled>>
otherVars == <<elements, contentParts, readerVars, aborted, rawResponse, sanitized>>

(***************************************************************************)
(* Program constants                                                       *)
(***************************************************************************)
maxIterations   == 8
maxInitRetries  == 3
maxRetries      == 2
maxAttempts     == 3
maxImageRetries == 3
MinImageLength  == 100
DegradeLength   == 1000
PassScore       == 90
AuditErrorScore == 50

\* null for currentImage (an image is its base64 length, always > 0)
NullImage == 0
\* null for auditScore
NullScore == -1

(***************************************************************************)
(* Bounds of the environment                                               *)
(***************************************************************************)
\* In Spec the remote model requests tool calls in at most this many turns.
MaxToolTurns == 2

\* In SpecAudit the remote model requests tool calls in at most this many turns.
MaxAuditTurns == 3

\* Lengths of the base64 payload the image service can reply with.
ImageReplies == {50, 500, 2000}

\* Parsed replies of the audit service: scores inside and outside 0..100,
\* and a reply that holds the score under its alternate key.
AuditReplies == {[compliance_score |-> 60, pass |-> FALSE],
                 [compliance_score |-> 60, pass |-> TRUE],
                 [compliance_score |-> 92, pass |-> TRUE],
                 [compliance_score |-> 150, pass |-> FALSE],
                 [compliance_score |-> -5, pass |-> FALSE],
                 [score |-> 95]}

Call(n, a) == [name |-> n, args |-> a]

Analyze     == Call("analyze_canvas", [focus |-> "all"])
Generate    == Call("generate_image", [prompt |-> "p"])
Audit       == Call("audit_compliance", [check |-> "all"])
Refine      == Call("refine_prompt", [original_prompt |-> "p"])
Search      == Call("search_trends", [query |-> "q"])
Complete(b) == Call("complete_task", [success |-> b, message |-> "m"])
Unknown     == Call("make_video", [prompt |-> "p"])

\* The batches of tool calls the remote model may request in one turn (Spec).
Menu ==
    { <<Analyze>>, <<Generate>>, <<Audit>>, <<Refine>>, <<Search>>,
      <<Complete(TRUE)>>, <<Complete(FALSE)>>, <<Unknown>>,
      <<Analyze, Search>>, <<Generate, Refine>>, <<Generate, Generate>>,
      <<Complete(TRUE), Search>>, <<Refine, Complete(FALSE)>>,
      <<Generate, Complete(TRUE)>> }

\* The batches of the long-run specification (SpecLong).
MenuLong == { <<Generate>>, <<Unknown, Unknown>> }

\* The batches of the audit specification (SpecAudit): the generate, audit,
\* refine cycle, one call per turn.
MenuAudit == { <<Generate>>, <<Audit>>, <<Refine>>, <<Complete(TRUE)>> }

\* A model turn: its tool calls and the thoughtSignature values of its parts.
NoCandidate == [candidate |-> FALSE, calls |-> <<>>, thoughtSignatures |-> <<>>]
Turn(calls) == [candidate |-> TRUE, calls |-> calls, thoughtSignatures |-> <<>>]

\* undefined for a thoughtSignature (a signature is the number of its turn, > 0)
NoSignature == 0

(***************************************************************************)
(* Tool executors                                                          *)
(***************************************************************************)
\* generateImageWithNanoBanana: the payload, or 0 when it throws
generateImageWithNanoBanana(reply) ==
    IF reply > MinImageLength THEN reply ELSE 0

\* the retry loop of generate_image over the replies of its tries
RECURSIVE GenerateRetry(_, _)
GenerateRetry(replies, attempt) ==
    IF attempt > maxImageRetries THEN NullImage
    ELSE LET img == generateImageWithNanoBanana(replies[attempt])
         IN  IF img # 0 THEN img ELSE GenerateRetry(replies, attempt + 1)

\* a failed remote call or an unparseable reply of the audit service
AuditFailure == [failed |-> TRUE]

\* the range compliance_score is clamped to
MinScore == 0
MaxScore == 100

\* mutant of Clamp: the score is passed through
ClampNothing(score) == score

\* Math.max(0, Math.min(100, score))
Clamp(score) ==
    IF score > MaxScore THEN MaxScore ELSE IF score < MinScore THEN MinScore ELSE score

\* validateAndSanitizeAuditResult(data): score and pass of the parsed reply
validateAndSanitizeAuditResult(data) ==
    LET score == IF "compliance_score" \in DOMAIN data THEN data.compliance_score
                 ELSE IF "score" \in DOMAIN data THEN data.score
                 ELSE AuditErrorScore
        pass  == IF "pass" \in DOMAIN data THEN data.pass ELSE score >= PassScore
    IN  [compliance_score |-> Clamp(score), pass |-> pass]

\* auditImageCompliance: o is the parsed reply of the audit service, or
\* AuditFailure when the call fails or the reply cannot be parsed
auditImageCompliance(o) ==
    IF "failed" \in DOMAIN o
    THEN [compliance_score |-> AuditErrorScore, pass |-> FALSE]
    ELSE validateAndSanitizeAuditResult(o)

\* the reply of the audit service an audit_compliance call received
NoReply == [tool |-> "none"]

auditReply(toolName, st, o) ==
    IF toolName = "audit_compliance" /\ ~(st.currentImage = NullImage \/ st.constitution = "null")
    THEN o ELSE NoReply

\* mutant of missingAuditInput: only the image is tested
missingAuditInputImageOnly(st) == st.currentImage = NullImage

\* !imageBase64 || !constitution
missingAuditInput(st) == st.currentImage = NullImage \/ st.constitution = "null"

ToolOutcomes(name, st) ==
    CASE name = "analyze_canvas" ->
            IF canvasElements = 0 THEN {"none"} ELSE {"profile", "default", "throw"}
      [] name = "generate_image" -> [1..maxImageRetries -> ImageReplies]
      [] name = "audit_compliance" ->
            IF missingAuditInput(st)
            THEN {"none"}
            ELSE AuditReplies \cup {AuditFailure}
      [] name = "refine_prompt" -> {"ok", "throw"}
      [] name = "search_trends" -> {"summary", "fail"}
      [] OTHER -> {"none"}

Returned(result, newState) == [threw |-> FALSE, result |-> result, newState |-> newState]
Threw == [threw |-> TRUE]

\* args.key: undefined when the model omitted the argument
Arg(args, key) ==
    IF key \in DOMAIN args THEN [given |-> TRUE, value |-> args[key]] ELSE [given |-> FALSE]

\* the options generate_image passes to generateImageWithNanoBanana
generateOptions(args, st) ==
    [styleGuide        |-> Arg(args, "style_guide"),
     colorPalette      |-> Arg(args, "color_palette"),
     forbiddenElements |-> Arg(args, "forbidden_elements")]

\* the sections generateImageWithNanoBanana adds to the prompt it sends
enhancedPrompt(options) ==
    {"prompt"}
    \cup (IF options.styleGuide.given THEN {"STYLE GUIDE"} ELSE {})
    \cup (IF options.colorPalette.given THEN {"COLOR PALETTE"} ELSE {})
    \cup (IF options.forbiddenElements.given THEN {"FORBIDDEN"} ELSE {})

\* what a tool call asks of the image service: nothing unless it is generate_image
NoRequest == [tool |-> "none"]

generationRequest(toolName, args, st) ==
    IF toolName = "generate_image"
    THEN [tool |-> "generate_image",
          options |-> generateOptions(args, st),
          sections |-> enhancedPrompt(generateOptions(args, st))]
    ELSE NoRequest

\* mutant of generateFailure: the last error is rethrown
generateFailureThrows(st) == Threw

\* generate_image when every try failed: a soft failure
generateFailure(st) ==
    Returned([success |-> FALSE, error |-> "Image generation failed",
              retry_suggested |-> TRUE],
             [st EXCEPT !.phase = "generating", !.attempts = st.attempts + 1])

\* searchWebForContext: the summary, or "" when the remote call fails
searchWebForContext(o) == IF o = "fail" THEN "" ELSE "summary"

\* mutant of searchTrends: a failed search is rethrown
searchTrendsRethrows(st, o) ==
    IF o = "fail" THEN Threw
    ELSE Returned([success |-> TRUE, search_results |-> "summary"], st)

\* the search_trends executor
searchTrends(st, o) ==
    Returned([success |-> TRUE, search_results |-> searchWebForContext(o)], st)

\* mutant of unknownTool: an unregistered tool name is an exception
unknownToolThrows(toolName, st) == Threw

\* the default case of executeTool
unknownTool(toolName, st) == Returned([error |-> "Unknown tool"], st)

\* executeTool(toolName, args, state) under the environment's reply o
executeTool(toolName, args, st, o) ==
    CASE toolName = "analyze_canvas" ->
            IF canvasElements = 0
            THEN Returned([success |-> FALSE, error |-> "No canvas elements found in state"], st)
            ELSE IF o = "throw" THEN Threw
            ELSE LET constitution == IF o = "profile" THEN "analysed" ELSE "default"
                 IN  Returned([success |-> TRUE, constitution |-> constitution],
                              [st EXCEPT !.constitution = constitution, !.phase = "analyzing"])
      [] toolName = "generate_image" ->
            LET imageBase64 == GenerateRetry(o, 1)
            IN  IF imageBase64 = NullImage
                THEN generateFailure(st)
                ELSE Returned([success |-> TRUE, image_generated |-> TRUE],
                              [st EXCEPT !.currentImage = imageBase64,
                                         !.phase = "generating",
                                         !.attempts = st.attempts + 1])
      [] toolName = "audit_compliance" ->
            IF missingAuditInput(st)
            THEN Returned([success |-> FALSE, error |-> "Missing image or brand DNA"], st)
            ELSE LET auditResult == auditImageCompliance(o)
                     passes == auditResult.pass \/ auditResult.compliance_score >= PassScore
                 IN  Returned([success |-> TRUE,
                               compliance_score |-> auditResult.compliance_score,
                               pass |-> passes,
                               next_action |-> IF passes THEN "complete_task" ELSE "refine"],
                              [st EXCEPT !.auditScore = auditResult.compliance_score,
                                         !.phase = IF passes THEN "complete" ELSE "auditing"])
      [] toolName = "refine_prompt" ->
            IF o = "throw" THEN Threw
            ELSE Returned([success |-> TRUE, refined_prompt |-> "refined"],
                          [st EXCEPT !.phase = "refining"])
      [] toolName = "search_trends" ->
            searchTrends(st, o)
      [] toolName = "complete_task" ->
            Returned([success |-> args.success, message |-> args.message,
                      final_image |-> st.currentImage],
                     [st EXCEPT !.phase = "complete"])
      [] OTHER ->
            unknownTool(toolName, st)

\* mutant of summarizeFunctionResponse: the result is echoed as it is
summarizeNothing(toolName, result) == result

\* summarizeFunctionResponse(toolName, result)
summarizeFunctionResponse(toolName, result) ==
    CASE toolName = "generate_image" ->
            [success |-> result.success,
             image_generated |-> IF "image_generated" \in DOMAIN result
                                 THEN result.image_generated ELSE result.success,
             error |-> IF "error" \in DOMAIN result THEN result.error ELSE "undefined"]
      [] toolName = "audit_compliance" ->
            IF "compliance_score" \in DOMAIN result
            THEN [compliance_score |-> result.compliance_score, pass |-> result.pass,
                  issue_count |-> 0]
            ELSE [issue_count |-> 0]
      [] toolName = "complete_task" ->
            [success |-> result.success, message |-> result.message]
      [] OTHER -> result

(***************************************************************************)
(* runAgentLoop                                                            *)
(***************************************************************************)
\* mutant of InitialState: the cached profile is ignored
InitialStateWithoutCache(saved) ==
    [step |-> 0, phase |-> "planning", constitution |-> "null",
     currentImage |-> NullImage, auditScore |-> NullScore,
     attempts |-> 0, maxAttempts |-> maxAttempts]

InitialState(saved) ==
    [step |-> 0, phase |-> "planning", constitution |-> saved,
     currentImage |-> NullImage, auditScore |-> NullScore,
     attempts |-> 0, maxAttempts |-> maxAttempts]

\* the state when the route's background task starts
LoopInit ==
    /\ pc = "start"
    /\ canvasElements \in {0, 2}
    /\ savedConstitution \in {"null", "saved"}
    /\ state = InitialState(savedConstitution)
    /\ history = <<>>
    /\ response = NoCandidate
    /\ i = 0
    /\ initialRetry = 0
    /\ retryCount = 0
    /\ functionCalls = <<>>
    /\ dispatchState = state
    /\ toolResults = <<>>
    /\ finishOrder = <<>>
    /\ functionResponses = <<>>
    /\ bundle = [exit |-> "none"]
    /\ thrown = "none"
    /\ events = <<>>
    /\ stream = "idle"
    /\ exchanges = 0
    /\ toolTurns = 0
    /\ maxCalls = 0
    /\ histAtDispatch = 0
    /\ latestImage = NullImage
    /\ chat = <<>>
    /\ aborted = FALSE

\* nothing handed to validateAndSanitizeConstitution yet
NoResponse == [shape |-> "none"]
NoProfile  == [profile |-> "none"]

\* analyzeCanvasForConstitution has not been handed anything
NoScan == elements = <<>> /\ contentParts = <<>>

\* the dashboard is not reading a stream
NoReader == written = <<>> /\ wire = <<>> /\ buffer = <<>> /\ handled = <<>>

Init ==
    /\ LoopInit
    /\ rawResponse = NoResponse
    /\ sanitized = NoProfile
    /\ NoScan
    /\ NoReader

\* the turns the remote model can answer with
Replies(menu, cap) ==
    {NoCandidate, Turn(<<>>)} \cup
    (IF toolTurns < cap THEN {Turn(b) : b \in menu} ELSE {})

\* The remote model signs every turn that carries tool calls; the signature
\* of a turn is the number of the turn.
Receive(r) ==
    /\ response' = [r EXCEPT !.thoughtSignatures =
                        IF Len(r.calls) > 0 THEN <<toolTurns + 1>> ELSE <<>>]
    /\ toolTurns' = IF Len(r.calls) > 0 THEN toolTurns + 1 ELSE toolTurns

\* chat.sendMessage(sent) resolved with resp: the session appends the message
\* sent and the model's message, with its signatures, to its history; a
\* response without candidate is not kept
ChatExchange(session, sent, resp) ==
    IF resp.candidate
    THEN session \o <<[role |-> "user", parts |-> sent],
                      [role |-> "model", thoughtSignatures |-> resp.thoughtSignatures]>>
    ELSE session

\* thoughtSignatures[0]
mainSignature(resp) ==
    IF Len(resp.thoughtSignatures) > 0 THEN resp.thoughtSignatures[1] ELSE NoSignature

\* route.ts sendEvent: writer.write.  Once the caller has aborted the request
\* the stream has no reader and the event is not delivered.
sendEvent(evs, ev) == IF aborted THEN evs ELSE Append(evs, ev)

\* route.ts: the background task writes the start event and calls runAgentLoop
RouteStart ==
    /\ pc = "start"
    /\ stream' = "open"
    /\ events' = <<[type |-> "start"]>>
    /\ pc' = "init"
    /\ exchanges' = exchanges + 1
    /\ UNCHANGED <<state, history, canvasElements, savedConstitution, response, i,
                   initialRetry, retryCount, functionCalls, dispatchState,
                   toolResults, finishOrder, functionResponses, bundle, thrown,
                   toolTurns, maxCalls, histAtDispatch, latestImage, chat, otherVars>>

\* chat.sendMessage(systemMessage) succeeds
InitialMessage(menu, cap) ==
    /\ pc = "init"
    /\ initialRetry <= maxInitRetries
    /\ \E r \in Replies(menu, cap) : Receive(r)
    /\ chat' = ChatExchange(chat, <<[text |-> "systemMessage"]>>, response')
    /\ pc' = "loop"
    /\ initialRetry' = 0   \* never read after the retry loop
    /\ UNCHANGED <<state, history, canvasElements, savedConstitution, i,
                   retryCount, functionCalls, dispatchState,
                   toolResults, finishOrder, functionResponses, bundle, thrown,
                   events, stream, exchanges, maxCalls, histAtDispatch, latestImage,
                   otherVars>>

\* mutant of InitialMessageFails: one more retry before giving up
InitialMessageFailsOnceMore ==
    /\ pc = "init"
    /\ initialRetry <= maxInitRetries + 1
    /\ initialRetry' = initialRetry + 1
    /\ IF initialRetry' > maxInitRetries + 1
       THEN pc' = "thrown" /\ thrown' = "init"
       ELSE UNCHANGED <<pc, thrown>>
    /\ UNCHANGED <<state, history, canvasElements, savedConstitution, response, i,
                   retryCount, functionCalls, dispatchState, toolResults,
                   finishOrder, functionResponses, bundle, events, stream,
                   exchanges, toolTurns, maxCalls, histAtDispatch, latestImage,
                   chat, otherVars>>

\* chat.sendMessage(systemMessage) throws
InitialMessageFails ==
    /\ pc = "init"
    /\ initialRetry <= maxInitRetries
    /\ initialRetry' = initialRetry + 1
    /\ IF initialRetry' > maxInitRetries
       THEN pc' = "thrown" /\ thrown' = "init"
       ELSE UNCHANGED <<pc, thrown>>
    /\ UNCHANGED <<state, history, canvasElements, savedConstitution, response, i,
                   retryCount, functionCalls, dispatchState, toolResults,
                   finishOrder, functionResponses, bundle, events, stream,
                   exchanges, toolTurns, maxCalls, histAtDispatch, latestImage, chat, otherVars>>

\* mutant of LoopContinues: an off-by-one loop bound
LoopContinuesOffByOne(n) == n <= maxIterations

\* the for-loop's condition
LoopContinues(n) == n < maxIterations

\* mutant of FallThrough: a run that did not complete is reported as failed
FallThroughAlwaysFails(st, hist) ==
    [exit |-> "fallthrough",
     success |-> FALSE,
     image |-> st.currentImage,
     message |-> "Agent completed",
     history |-> hist,
     constitution |-> st.constitution]

\* the value returned after the loop
FallThrough(st, hist) ==
    [exit |-> "fallthrough",
     success |-> st.currentImage # NullImage,
     image |-> st.currentImage,
     message |-> "Agent completed",
     history |-> hist,
     constitution |-> st.constitution]

\* mutant of NoFunctionCalls: an empty batch is processed like any other
NoFunctionCallsNever(calls) == FALSE

\* functionCalls.length === 0
NoFunctionCalls(calls) == Len(calls) = 0

\* the loop ends: ceiling reached, no candidate, or a turn without tool calls
LoopExit ==
    /\ pc = "loop"
    /\ \/ ~LoopContinues(i)
       \/ ~response.candidate
       \/ NoFunctionCalls(response.calls)
    /\ bundle' = FallThrough(state, history)
    /\ pc' = "returned"
    /\ UNCHANGED <<state, history, canvasElements, savedConstitution, response, i,
                   initialRetry, retryCount, functionCalls, dispatchState,
                   toolResults, finishOrder, functionResponses, thrown, events,
                   stream, exchanges, toolTurns, maxCalls, histAtDispatch, latestImage, chat, otherVars>>

\* functionCalls.map(async ...): every callback runs up to its first await, so
\* every state.step++ happens before any executor settles
Dispatch ==
    /\ pc = "loop"
    /\ LoopContinues(i)
    /\ response.candidate
    /\ ~NoFunctionCalls(response.calls)
    /\ functionCalls' = response.calls
    /\ state' = [state EXCEPT !.step = @ + Len(response.calls)]
    /\ dispatchState' = state'
    /\ toolResults' = <<>>
    /\ finishOrder' = <<>>
    /\ functionResponses' = <<>>
    /\ histAtDispatch' = Len(history)
    /\ maxCalls' = IF Len(response.calls) > maxCalls THEN Len(response.calls) ELSE maxCalls
    /\ pc' = "await"
    /\ UNCHANGED <<history, canvasElements, savedConstitution, response, i,
                   initialRetry, retryCount, bundle, thrown, events, stream,
                   exchanges, toolTurns, latestImage, chat, otherVars>>

\* the executor of call k settles: it returns, or it throws and Promise.all rejects
Finish(k) ==
    /\ pc = "await"
    /\ k \in 1..Len(functionCalls)
    /\ k \notin DOMAIN toolResults
    /\ \E o \in ToolOutcomes(functionCalls[k].name, dispatchState) :
         LET r == executeTool(functionCalls[k].name, functionCalls[k].args, dispatchState, o)
         IN  IF r.threw
             THEN /\ pc' = "thrown"
                  /\ thrown' = "executor"
                  /\ UNCHANGED <<toolResults, finishOrder, latestImage>>
             ELSE /\ toolResults' = [j \in DOMAIN toolResults \cup {k} |->
                                        IF j = k THEN [result |-> r.result, newState |-> r.newState,
                                                       request |-> generationRequest(
                                                           functionCalls[k].name,
                                                           functionCalls[k].args,
                                                           dispatchState),
                                                       reply |-> auditReply(
                                                           functionCalls[k].name,
                                                           dispatchState, o)]
                                        ELSE toolResults[j]]
                  /\ finishOrder' = Append(finishOrder, k)
                  /\ latestImage' = IF /\ functionCalls[k].name = "generate_image"
                                        /\ r.result.success
                                     THEN r.newState.currentImage
                                     ELSE latestImage
                  /\ UNCHANGED <<pc, thrown>>
    /\ UNCHANGED <<state, history, canvasElements, savedConstitution, response, i,
                   initialRetry, retryCount, functionCalls, dispatchState,
                   functionResponses, bundle, events, stream, exchanges, toolTurns,
                   maxCalls, histAtDispatch, chat, otherVars>>

\* the order of the array Promise.all resolves to: the order of the promises
PromiseAllOrder(n, finished) == [k \in 1..n |-> k]

\* state = { ...state, ...newState, history: state.history }
MergeState(cur, new) ==
    [f \in DOMAIN cur \cup DOMAIN new |-> IF f \in DOMAIN new THEN new[f] ELSE cur[f]]

\* the bundle returned when complete_task is merged
CompletionBundle(result, st, hist) ==
    [exit |-> "complete_task",
     success |-> result.success,
     image |-> IF result.final_image # NullImage THEN result.final_image ELSE st.currentImage,
     message |-> result.message,
     history |-> hist,
     constitution |-> st.constitution]

\* mutant of AppendAction: the new entry is put in front
PrependAction(hist, action) == <<action>> \o hist

\* state.history.push(action)
AppendAction(hist, action) == Append(hist, action)

\* mutant of onAction: the action is not reported
onActionNever(evs, action) == evs

\* onAction(action): the callback the route passes to runAgentLoop writes one
\* action event
onAction(evs, action) == sendEvent(evs, [type |-> "action", tool |-> action.tool])

\* mutant of FunctionResponsePart: the turn's signature is attached to the part
FunctionResponsePartSigned(action) ==
    [name |-> action.tool,
     response |-> summarizeFunctionResponse(action.tool, action.output),
     thoughtSignature |-> action.thoughtSignature]

\* the functionResponse part pushed for an action: the tool's name and the
\* summarized result
FunctionResponsePart(action) ==
    [name |-> action.tool,
     response |-> summarizeFunctionResponse(action.tool, action.output)]

\* mutant of LastOfBatch: the responses are sent from inside the merge loop
LastOfBatchAlways(p, calls) == TRUE

\* the for-of loop over toolResults has reached its last element
LastOfBatch(p, calls) == p = Len(calls)

\* Promise.all resolved.  One iteration of the for-loop over toolResults:
\* merge the state, append the action, report it, build the function
\* response; return when the call is complete_task.  The position of the
\* iteration is the number of function responses built so far.
Merge ==
    /\ pc = "await"
    /\ DOMAIN toolResults = 1..Len(functionCalls)
    /\ Len(functionResponses) < Len(functionCalls)
    /\ LET p      == Len(functionResponses) + 1
           k      == PromiseAllOrder(Len(functionCalls), finishOrder)[p]
           fc     == functionCalls[k]
           result == toolResults[k].result
           st     == MergeState(state, toolResults[k].newState)
           action == [tool |-> fc.name, input |-> fc.args, output |-> result,
                      thoughtSignature |-> mainSignature(response)]
           hist   == AppendAction(history, action)
       IN  /\ state' = st
           /\ history' = hist
           /\ events' = onAction(events, action)
           /\ functionResponses' =
                 Append(functionResponses, FunctionResponsePart(action))
           /\ IF fc.name = "complete_task"
              THEN /\ bundle' = CompletionBundle(result, st, hist)
                   /\ pc' = "returned"
                   /\ UNCHANGED <<retryCount, exchanges>>
              ELSE IF LastOfBatch(p, functionCalls)
              THEN /\ pc' = "send"
                   /\ retryCount' = 0
                   /\ exchanges' = exchanges + 1
                   /\ UNCHANGED bundle
              ELSE UNCHANGED <<pc, retryCount, exchanges, bundle>>
    /\ UNCHANGED <<canvasElements, savedConstitution, response, i, initialRetry,
                   functionCalls, dispatchState, toolResults, finishOrder, thrown,
                   stream, toolTurns, maxCalls, histAtDispatch, latestImage, chat, otherVars>>

\* chat.sendMessage(functionResponses) succeeds
Send(menu, cap) ==
    /\ pc = "send"
    /\ retryCount <= maxRetries
    /\ \E r \in Replies(menu, cap) : Receive(r)
    /\ chat' = ChatExchange(chat, functionResponses, response')
    /\ i' = i + 1
    /\ pc' = "loop"
    /\ retryCount' = 0   \* block-scoped: a fresh counter in the next iteration
    /\ UNCHANGED <<state, history, canvasElements, savedConstitution, initialRetry,
                   functionCalls, dispatchState, toolResults,
                   finishOrder, functionResponses, bundle, thrown, events, stream,
                   exchanges, maxCalls, histAtDispatch, latestImage, otherVars>>

\* mutant of HasUsableImage: degrade gracefully whether or not an image exists
HasUsableImageAlways(img) == TRUE

\* the test that guards graceful degradation
HasUsableImage(img) == img # NullImage /\ img > DegradeLength

GracefulBundle(st, hist) ==
    [exit |-> "graceful",
     success |-> TRUE,
     image |-> st.currentImage,
     message |-> "Generated image successfully! (Agent flow interrupted but image was created)",
     history |-> hist,
     constitution |-> st.constitution]

\* mutant of SendFails: the retry counter starts over instead of giving up
SendFailsStartsOver ==
    /\ pc = "send"
    /\ retryCount <= maxRetries
    /\ retryCount' = (retryCount + 1) % (maxRetries + 1)
    /\ UNCHANGED <<pc, thrown, bundle>>
    /\ UNCHANGED <<state, history, canvasElements, savedConstitution, response, i,
                   initialRetry, functionCalls, dispatchState, toolResults,
                   finishOrder, functionResponses, events, stream, exchanges,
                   toolTurns, maxCalls, histAtDispatch, latestImage, chat, otherVars>>

\* chat.sendMessage(functionResponses) throws.  The retry loop is left only by
\* break (success), return or throw, so the safeguard after it
\* (!apiCallSucceeded && state.currentImage) can never be taken.
SendFails ==
    /\ pc = "send"
    /\ retryCount <= maxRetries
    /\ retryCount' = retryCount + 1
    /\ IF retryCount' > maxRetries
       THEN IF HasUsableImage(state.currentImage)
            THEN /\ bundle' = GracefulBundle(state, history)
                 /\ pc' = "returned"
                 /\ UNCHANGED thrown
            ELSE /\ pc' = "thrown"
                 /\ thrown' = "send"
                 /\ UNCHANGED bundle
       ELSE UNCHANGED <<pc, thrown, bundle>>
    /\ UNCHANGED <<state, history, canvasElements, savedConstitution, response, i,
                   initialRetry, functionCalls, dispatchState, toolResults,
                   finishOrder, functionResponses, events, stream, exchanges,
                   toolTurns, maxCalls, histAtDispatch, latestImage, chat, otherVars>>

\* route.ts: runAgentLoop returned; write the complete event and close
RouteComplete ==
    /\ pc = "returned"
    /\ stream = "open"
    /\ events' = sendEvent(events, [type |-> "complete", success |-> bundle.success,
                                    hasImage |-> bundle.image # NullImage,
                                    historyLength |-> Len(bundle.history)])
    /\ stream' = "closed"
    /\ UNCHANGED <<pc, state, history, canvasElements, savedConstitution, response,
                   i, initialRetry, retryCount, functionCalls, dispatchState,
                   toolResults, finishOrder, functionResponses, bundle, thrown,
                   exchanges, toolTurns, maxCalls, histAtDispatch, latestImage, chat, otherVars>>

\* mutant of RouteError: the stream is closed without the error event
RouteErrorSilent ==
    /\ pc = "thrown"
    /\ stream = "open"
    /\ stream' = "closed"
    /\ UNCHANGED <<pc, state, history, canvasElements, savedConstitution, response,
                   i, initialRetry, retryCount, functionCalls, dispatchState,
                   toolResults, finishOrder, functionResponses, bundle, thrown,
                   events, exchanges, toolTurns, maxCalls, histAtDispatch,
                   latestImage, chat, otherVars>>

\* route.ts: runAgentLoop threw; write the error event and close
RouteError ==
    /\ pc = "thrown"
    /\ stream = "open"
    /\ events' = sendEvent(events, [type |-> "error"])
    /\ stream' = "closed"
    /\ UNCHANGED <<pc, state, history, canvasElements, savedConstitution, response,
                   i, initialRetry, retryCount, functionCalls, dispatchState,
                   toolResults, finishOrder, functionResponses, bundle, thrown,
                   exchanges, toolTurns, maxCalls, histAtDispatch, latestImage, chat, otherVars>>

FinishSome == \E k \in 1..Len(functionCalls) : Finish(k)

Next ==
    \/ RouteStart
    \/ InitialMessage(Menu, MaxToolTurns)
    \/ InitialMessageFails
    \/ LoopExit
    \/ Dispatch
    \/ FinishSome
    \/ Merge
    \/ Send(Menu, MaxToolTurns)
    \/ SendFails
    \/ RouteComplete
    \/ RouteError

Spec == Init /\ [][Next]_vars

\* Long runs: the remote model keeps requesting tool calls until the loop stops it.
NextLong ==
    \/ RouteStart
    \/ InitialMessage(MenuLong, maxIterations + 1)
    \/ InitialMessageFails
    \/ LoopExit
    \/ Dispatch
    \/ FinishSome
    \/ Merge
    \/ Send(MenuLong, maxIterations + 1)
    \/ SendFails
    \/ RouteComplete
    \/ RouteError

\* The long runs start without a cached profile and with a non-empty canvas.
InitLong == Init /\ canvasElements = 2 /\ savedConstitution = "null"

SpecLong == InitLong /\ [][NextLong]_vars

\* Long runs in which every remote call eventually returns or fails and every
\* continuation of the background task eventually runs.
SpecLongFair == SpecLong /\ WF_vars(NextLong)

\* Audit runs: the caller supplies a cached profile and the remote model
\* walks through the generate, audit, refine cycle.
NextAudit ==
    \/ RouteStart
    \/ InitialMessage(MenuAudit, MaxAuditTurns)
    \/ InitialMessageFails
    \/ LoopExit
    \/ Dispatch
    \/ FinishSome
    \/ Merge
    \/ Send(MenuAudit, MaxAuditTurns)
    \/ SendFails
    \/ RouteComplete
    \/ RouteError

InitAudit == Init /\ canvasElements = 2 /\ savedConstitution = "saved"

SpecAudit == InitAudit /\ [][NextAudit]_vars

\* dashboard stopAgent: abortRef.current.abort() cancels the request whose
\* response is the event stream.  The route and runAgentLoop hold no abort
\* signal, so nothing of the background task changes.
Abort ==
    /\ stream = "open"
    /\ ~aborted
    /\ aborted' = TRUE
    /\ UNCHANGED <<pc, state, history, canvasElements, savedConstitution, response, i,
                   initialRetry, retryCount, functionCalls, dispatchState,
                   toolResults, finishOrder, functionResponses, bundle, thrown,
                   events, stream, exchanges, toolTurns, maxCalls, histAtDispatch,
                   latestImage, chat, elements, contentParts, readerVars,
                   rawResponse, sanitized>>

\* Runs the caller may abort while the stream is open.
NextAbort ==
    \/ RouteStart
    \/ InitialMessage(MenuLong, MaxToolTurns)
    \/ InitialMessageFails
    \/ LoopExit
    \/ Dispatch
    \/ FinishSome
    \/ Merge
    \/ Send(MenuLong, MaxToolTurns)
    \/ SendFails
    \/ RouteComplete
    \/ RouteError
    \/ Abort

SpecAbort == InitLong /\ [][NextAbort]_vars

(***************************************************************************)
(* validateAndSanitizeConstitution                                         *)
(*                                                                         *)
(* A JSON value is a tagged record: a string is the sequence of its        *)
(* segments between '.' characters (what split('.') returns), an array is  *)
(* a sequence, an object is a function from its keys to values.            *)
(***************************************************************************)
Undefined == [t |-> "undef"]
Str(segments) == [t |-> "str", v |-> segments]
Arr(items) == [t |-> "arr", v |-> items]
Obj(fields)   == [t |-> "obj", v |-> fields]
EmptyObj      == [k \in {} |-> Undefined]

\* data.f and data?.f
Field(x, f) == IF x.t = "obj" /\ f \in DOMAIN x.v THEN x.v[f] ELSE Undefined
isArray(x)  == x.t = "arr"
isString(x) == x.t = "str"
Truthy(x)   == x.t \in {"arr", "obj"} \/ (x.t = "str" /\ x.v # <<"">>)
\* a || b
Or(a, b)    == IF Truthy(a) THEN a ELSE b

getDefaultConstitution ==
    [visual_identity |->
        [color_palette_hex  |-> Arr(<<"#00FFCC", "#FF00FF", "#000000">>),
         photography_style  |-> Str(<<"Modern, bold, high contrast">>),
         style_description  |-> Str(<<"Modern, bold, high contrast">>),
         forbidden_elements |-> Arr(<<>>)],
     voice |->
        [tone     |-> Str(<<"Professional yet approachable">>),
         keywords |-> Arr(<<"Innovation", "Quality">>)],
     risk_thresholds |->
        [nudity    |-> Str(<<"STRICT_ZERO_TOLERANCE">>),
         political |-> Str(<<"STRICT_ZERO_TOLERANCE">>)]]

colorPalette(data) ==
    IF isArray(Field(data, "visual_identity"))
    THEN Field(data, "visual_identity")
    ELSE IF isArray(Field(Field(data, "visual_identity"), "color_palette_hex"))
    THEN Field(Field(data, "visual_identity"), "color_palette_hex")
    ELSE IF isArray(Field(data, "color_palette"))
    THEN Field(data, "color_palette")
    ELSE IF isArray(Field(data, "color_palette_hex"))
    THEN Field(data, "color_palette_hex")
    ELSE getDefaultConstitution.visual_identity.color_palette_hex

photographyStyle(data) ==
    Or(Field(Field(data, "visual_identity"), "photography_style"),
       Or(Field(data, "photography_style"),
          getDefaultConstitution.visual_identity.photography_style))

\* photographyStyle.split('.')[0] + '.'
FirstSentence(text) == Str(<<text.v[1], "">>)

styleDescription(data) ==
    Or(Field(Field(data, "visual_identity"), "style_description"),
       Or(Field(data, "style_description"),
          FirstSentence(photographyStyle(data))))

forbiddenElements(data) ==
    IF isArray(Field(Field(data, "visual_identity"), "forbidden_elements"))
    THEN Field(Field(data, "visual_identity"), "forbidden_elements")
    ELSE IF isArray(Field(data, "forbidden_elements"))
    THEN Field(data, "forbidden_elements")
    ELSE getDefaultConstitution.visual_identity.forbidden_elements

\* mutant of voiceTone: the alternate key voice_tone is not read
voiceToneWithoutAlternateKey(data) ==
    IF isString(Field(Field(data, "voice"), "tone"))
    THEN Field(Field(data, "voice"), "tone")
    ELSE IF isString(Field(data, "voice"))
    THEN Field(data, "voice")
    ELSE IF isString(Field(data, "tone"))
    THEN Field(data, "tone")
    ELSE getDefaultConstitution.voice.tone

voiceTone(data) ==
    IF isString(Field(Field(data, "voice"), "tone"))
    THEN Field(Field(data, "voice"), "tone")
    ELSE IF isString(Field(data, "voice"))
    THEN Field(data, "voice")
    ELSE IF isString(Field(data, "voice_tone"))
    THEN Field(data, "voice_tone")
    ELSE IF isString(Field(data, "tone"))
    THEN Field(data, "tone")
    ELSE getDefaultConstitution.voice.tone

keywords(data) ==
    IF isArray(Field(Field(data, "voice"), "keywords"))
    THEN Field(Field(data, "voice"), "keywords")
    ELSE IF isArray(Field(data, "keywords"))
    THEN Field(data, "keywords")
    ELSE getDefaultConstitution.voice.keywords

nudity(data) ==
    Or(Field(Field(data, "risk_thresholds"), "nudity"),
       IF Truthy(Field(data, "risk_thresholds")) /\ isString(Field(data, "risk_thresholds"))
       THEN Str(<<"STRICT_ZERO_TOLERANCE">>)
       ELSE getDefaultConstitution.risk_thresholds.nudity)

political(data) ==
    Or(Field(Field(data, "risk_thresholds"), "political"),
       getDefaultConstitution.risk_thresholds.political)

validateAndSanitizeConstitution(data) ==
    [visual_identity |->
        [color_palette_hex  |-> colorPalette(data),
         photography_style  |-> photographyStyle(data),
         style_description  |-> styleDescription(data),
         forbidden_elements |-> forbiddenElements(data)],
     voice |->
        [tone     |-> voiceTone(data),
         keywords |-> keywords(data)],
     risk_thresholds |->
        [nudity    |-> nudity(data),
         political |-> political(data)]]

\* What a reply of the analysis model can carry: each item is present or
\* missing.
Contents ==
    [palette           : {Undefined, Arr(<<>>), Arr(<<"#112233", "#445566">>)},
     photography_style : {Undefined, Str(<<"Warm film grain", " Soft light">>)},
     style_description : {Undefined, Str(<<"Retro editorial">>)},
     forbidden         : {Undefined, Arr(<<"neon">>)},
     tone              : {Undefined, Str(<<"">>), Str(<<"Playful">>)},
     keywords          : {Undefined, Arr(<<"Bold">>)},
     risk              : {Undefined, Str(<<"strict">>)}]

\* Where a reply puts each item.  A visual_identity that is the palette
\* array cannot hold nested items, and neither can a voice that is the tone.
Shapes ==
    {sh \in [palette   : {"visual_identity", "nested", "color_palette", "color_palette_hex"},
             photo     : {"nested", "root"},
             desc      : {"nested", "root"},
             forbidden : {"nested", "root"},
             tone      : {"nested", "voice", "voice_tone", "tone"},
             keywords  : {"nested", "root"}] :
        /\ sh.palette = "visual_identity" =>
              sh.photo = "root" /\ sh.desc = "root" /\ sh.forbidden = "root"
        /\ sh.tone = "voice" => sh.keywords = "root"}

\* the expected nested format
NestedShape ==
    [palette |-> "nested", photo |-> "nested", desc |-> "nested",
     forbidden |-> "nested", tone |-> "nested", keywords |-> "nested"]

\* the key with the value when the item is present and placed there
Opt(placed, key, value) ==
    IF placed /\ value # Undefined THEN key :> value ELSE EmptyObj

\* an object under the key when it has fields
OptObj(key, fields) ==
    IF DOMAIN fields # {} THEN key :> Obj(fields) ELSE EmptyObj

\* the parsed reply that carries content c in shape sh
Build(c, sh) ==
    LET vi == Opt(sh.palette = "nested", "color_palette_hex", c.palette)
              @@ Opt(sh.photo = "nested", "photography_style", c.photography_style)
              @@ Opt(sh.desc = "nested", "style_description", c.style_description)
              @@ Opt(sh.forbidden = "nested", "forbidden_elements", c.forbidden)
        vo == Opt(sh.tone = "nested", "tone", c.tone)
              @@ Opt(sh.keywords = "nested", "keywords", c.keywords)
    IN  Obj( (IF sh.palette = "visual_identity" /\ c.palette # Undefined
              THEN "visual_identity" :> c.palette
              ELSE OptObj("visual_identity", vi))
             @@ (IF sh.tone = "voice" /\ c.tone # Undefined
                 THEN "voice" :> c.tone
                 ELSE OptObj("voice", vo))
             @@ Opt(sh.palette = "color_palette", "color_palette", c.palette)
             @@ Opt(sh.palette = "color_palette_hex", "color_palette_hex", c.palette)
             @@ Opt(sh.photo = "root", "photography_style", c.photography_style)
             @@ Opt(sh.desc = "root", "style_description", c.style_description)
             @@ Opt(sh.forbidden = "root", "forbidden_elements", c.forbidden)
             @@ Opt(sh.tone = "voice_tone", "voice_tone", c.tone)
             @@ Opt(sh.tone = "tone", "tone", c.tone)
             @@ Opt(sh.keywords = "root", "keywords", c.keywords)
             @@ Opt(TRUE, "risk_thresholds", c.risk) )

\* JSON.parse returned data; validateAndSanitizeConstitution(data) is called
Sanitize ==
    /\ "data" \in DOMAIN rawResponse
    /\ sanitized = NoProfile
    /\ sanitized' = validateAndSanitizeConstitution(rawResponse.data)
    /\ UNCHANGED <<pc, state, history, canvasElements, savedConstitution, response, i,
                   initialRetry, retryCount, functionCalls, dispatchState,
                   toolResults, finishOrder, functionResponses, bundle, thrown,
                   events, stream, exchanges, toolTurns, maxCalls, histAtDispatch,
                   latestImage, chat, elements, contentParts, readerVars, aborted,
                   rawResponse>>

NextSanitize == Sanitize

\* a reply of the analysis model has been parsed
InitSanitize ==
    /\ LoopInit
    /\ canvasElements = 2
    /\ savedConstitution = "null"
    /\ \E c \in Contents, sh \in Shapes :
          rawResponse = [content |-> c, data |-> Build(c, sh)]
    /\ sanitized = NoProfile
    /\ NoScan
    /\ NoReader

SpecSanitize == InitSanitize /\ [][NextSanitize]_vars

(***************************************************************************)
(* Properties                                                              *)
(***************************************************************************)
RunReturned == pc = "returned"
RunThrew    == pc = "thrown"
RunEnded    == RunReturned \/ RunThrew

CompleteIdx(calls) == {k \in 1..Len(calls) : calls[k].name = "complete_task"}
FirstComplete(calls) ==
    calls[CHOOSE k \in CompleteIdx(calls) : \A j \in CompleteIdx(calls) : k <= j]

\* the current batch has been merged (the merge loop ran to its end or returned)
BatchMerged ==
    \/ pc = "send"
    \/ RunReturned /\ bundle.exit = "complete_task"

NewEntries == SubSeq(history, histAtDispatch + 1, Len(history))

\* the AgentState fields the executor of a call assigns in the state it returns
WrittenFields(toolName, result) ==
    LET ok == "success" \in DOMAIN result /\ result.success
    IN  CASE toolName = "analyze_canvas" ->
                IF ok THEN {"constitution", "phase"} ELSE {}
          [] toolName = "generate_image" ->
                IF ok THEN {"currentImage", "phase", "attempts"} ELSE {"phase", "attempts"}
          [] toolName = "audit_compliance" ->
                IF ok THEN {"auditScore", "phase"} ELSE {}
          [] toolName = "refine_prompt" -> {"phase"}
          [] toolName = "complete_task" -> {"phase"}
          [] OTHER -> {}

Writers(f) ==
    {k \in 1..Len(functionCalls) :
        f \in WrittenFields(functionCalls[k].name, toolResults[k].result)}

\* the value of field f under last-writer-wins per field
LastWritten(f) ==
    IF Writers(f) = {} THEN dispatchState[f]
    ELSE toolResults[CHOOSE k \in Writers(f) : \A j \in Writers(f) : j <= k].newState[f]

\* C1: when a complete_task call was dispatched, the run ends by returning a
\* bundle, and the bundle's success is the success argument of that call.
C1_CompletionReturnsBundle ==
    (RunEnded /\ CompleteIdx(functionCalls) # {}) =>
        /\ RunReturned
        /\ bundle.exit = "complete_task"
        /\ bundle.success = FirstComplete(functionCalls).args.success

\* C2: once a batch of N tool calls is merged, history has exactly N new
\* entries, one per requested call, in request order, also when the batch
\* contains complete_task.
C2_BatchRecordedInRequestOrder ==
    BatchMerged =>
        /\ Len(NewEntries) = Len(functionCalls)
        /\ \A k \in 1..Len(NewEntries) :
              /\ NewEntries[k].tool = functionCalls[k].name
              /\ NewEntries[k].input = functionCalls[k].args

\* C3: after the results of a batch are merged, every AgentState field holds
\* the value written by the last call in request order that wrote it.
C3_LastWriterWinsPerField ==
    pc = "send" => \A f \in DOMAIN state : state[f] = LastWritten(f)

\* C4: no failure inside a tool executor makes runAgentLoop throw.
C4_ExecutorFailureNeverAborts ==
    thrown # "executor"

\* C5: when sending the tool results fails on every retry and
\* state.currentImage is non-null, runAgentLoop returns a bundle with
\* success = true, that image and the accumulated history.
C5_DegradesGracefullyWithAnyImage ==
    (retryCount > maxRetries /\ state.currentImage # NullImage) =>
        /\ RunReturned
        /\ bundle.success
        /\ bundle.image = state.currentImage
        /\ bundle.history = history

EventTypes == {events[k].type : k \in 1..Len(events)}

\* C6: when a turn exchange fails on every attempt and state.currentImage is
\* null, runAgentLoop throws and the route ends the stream with an error event
\* and no complete event; when it is the initial message, no tool was
\* dispatched and onAction was never called.
C6_ExhaustedWithoutArtifactThrows ==
    /\ (retryCount > maxRetries /\ state.currentImage = NullImage) =>
          /\ RunThrew
          /\ thrown = "send"
          /\ "complete" \notin EventTypes
          /\ stream = "closed" => events[Len(events)].type = "error"
    /\ initialRetry > maxInitRetries =>
          /\ RunThrew
          /\ thrown = "init"
          /\ "complete" \notin EventTypes
          /\ stream = "closed" => events[Len(events)].type = "error"
          /\ state.step = 0
          /\ functionCalls = <<>>
          /\ history = <<>>
          /\ "action" \notin EventTypes

\* C6 witness: results were recorded, the send then failed on every attempt
\* with no image, and the route closed the stream with the error event.
C6_Witness ==
    /\ retryCount > maxRetries
    /\ state.currentImage = NullImage
    /\ Len(history) > 0
    /\ stream = "closed"
    /\ events[Len(events)].type = "error"

\* C7: the number of turn exchanges with the model never exceeds maxIterations.
C7_ExchangesWithinCeiling ==
    exchanges <= maxIterations

\* C8: len(state.history) <= maxIterations * M, M the largest number of tool
\* calls of one turn.
C8_HistoryBound ==
    Len(history) <= maxIterations * maxCalls

\* C8 witness: every one of the maxIterations iterations recorded a batch of
\* the largest size.
C8_Witness ==
    /\ maxCalls = 2
    /\ Len(history) = maxIterations * maxCalls

\* C9: state.attempts never exceeds state.maxAttempts.
C9_AttemptsWithinCeiling ==
    state.attempts <= state.maxAttempts

PhaseRank(p) ==
    CASE p = "planning"   -> 0
      [] p = "analyzing"  -> 1
      [] p = "generating" -> 2
      [] p = "auditing"   -> 3
      [] p = "refining"   -> 4
      [] p = "complete"   -> 5

PhaseStepAllowed(p, q) ==
    \/ p = q
    \/ p # "complete" /\ PhaseRank(q) > PhaseRank(p)
    \/ p = "refining" /\ q = "generating"

\* C10: state.phase only moves forward (planning, analyzing, generating,
\* auditing, refining, complete) apart from the retry edge refining ->
\* generating; once it is complete it never changes and no tool call is
\* dispatched any more.
C10_PhaseMonotonic ==
    [][/\ PhaseStepAllowed(state.phase, state'.phase)
       /\ (state.phase = "complete" /\ pc # "await") => pc' # "await"]_vars

IsPrefix(s, t) == Len(s) <= Len(t) /\ SubSeq(t, 1, Len(s)) = s

\* C11: in every step the history before the step is a prefix of the history
\* after it: entries are never removed, reordered or modified, also while a
\* concurrent batch is merged.
C11_HistoryAppendOnly ==
    [][IsPrefix(history, history')]_vars

\* C11 witness: a second batch of two calls has been merged on top of the
\* entries of an earlier batch.
C11_Witness ==
    /\ pc = "send"
    /\ histAtDispatch > 0
    /\ Len(history) = histAtDispatch + 2

\* C12: every way a run can end (completion call, a turn with zero tool
\* calls, iteration ceiling, graceful degradation, turn-exchange failure)
\* delivers a bundle with success, message and the full history of the
\* actions executed so far.  The endings are the five the claim lists: a
\* run ended by a throwing executor is left out.
C12_EveryEndingDeliversBundle ==
    (RunEnded /\ thrown # "executor") =>
        /\ {"success", "message", "history"} \subseteq DOMAIN bundle
        /\ bundle.history = history

\* C13: when a run ends through complete_task, the image of the returned
\* bundle is the latest image generate_image produced during the run, also
\* when generate_image and complete_task are requested in the same turn.
C13_CompletionCarriesLatestImage ==
    (RunReturned /\ bundle.exit = "complete_task") =>
        bundle.image = latestImage

\* C14: once state.currentImage is non-null no step makes it null again, and
\* a bundle returned from such a state carries a non-null image.
C14_ImageNeverLost ==
    [][state.currentImage # NullImage =>
          /\ state'.currentImage # NullImage
          /\ (pc # "returned" /\ pc' = "returned") => bundle'.image # NullImage]_vars

\* C15: no function response built for the model contains the generated
\* image: the response for generate_image carries only success,
\* image_generated and error, the response for complete_task only success
\* and message.
C15_NoImageInFunctionResponses ==
    \A k \in 1..Len(functionResponses) :
        LET fr == functionResponses[k]
        IN  /\ "final_image" \notin DOMAIN fr.response
            /\ fr.name = "generate_image" =>
                  DOMAIN fr.response \subseteq {"success", "image_generated", "error"}
            /\ fr.name = "complete_task" =>
                  DOMAIN fr.response = {"success", "message"}

\* C15 witness: the response of a complete_task call whose result carried a
\* non-null final_image has been built, after the response of a
\* generate_image call was sent in an earlier turn.
C15_Witness ==
    /\ Len(functionResponses) > 0
    /\ functionResponses[Len(functionResponses)].name = "complete_task"
    /\ history[Len(history)].tool = "complete_task"
    /\ history[Len(history)].output.final_image # NullImage
    /\ \E k \in 1..Len(history) : history[k].tool = "generate_image"

\* the recorded results of the audit_compliance calls that ran an audit
AuditOutputs ==
    {history[k].output : k \in {j \in 1..Len(history) :
                                  /\ history[j].tool = "audit_compliance"
                                  /\ history[j].output.success}}

\* C16: the pass flag of an audit_compliance result is true if and only if
\* its compliance_score is >= 90, whatever pass value the remote model
\* reported.
C16_PassIffScoreAtLeast90 ==
    \A out \in AuditOutputs : out.pass <=> out.compliance_score >= PassScore

\* positions of the history that hold a successful audit
AuditAt(k) ==
    /\ history[k].tool = "audit_compliance"
    /\ history[k].output.success

\* state.attempts when entry k was recorded (one call per turn)
AttemptsAt(k) == Cardinality({j \in 1..k : history[j].tool = "generate_image"})

\* C17: after audit_compliance returns a score >= 90 refine_prompt is never
\* executed; after a score < 90 with state.attempts < state.maxAttempts the
\* next tools executed are refine_prompt and then generate_image.
C17_AuditDecidesNextTools ==
    \A k \in 1..Len(history) :
        AuditAt(k) =>
            IF history[k].output.compliance_score >= PassScore
            THEN \A j \in k+1..Len(history) : history[j].tool # "refine_prompt"
            ELSE AttemptsAt(k) < state.maxAttempts =>
                    /\ k + 1 <= Len(history) => history[k+1].tool = "refine_prompt"
                    /\ k + 2 <= Len(history) => history[k+2].tool = "generate_image"

\* C18: with zero canvas elements the analyze_canvas executor returns a
\* successful result carrying the default profile (and state.constitution is
\* set to it), instead of returning a failure.
C18_EmptyCanvasYieldsDefaultProfile ==
    canvasElements = 0 =>
        \A k \in 1..Len(history) :
            history[k].tool = "analyze_canvas" =>
                /\ history[k].output.success
                /\ history[k].output.constitution = "default"

\* C19: two replies that carry the same palette, style text, forbidden
\* elements, tone and keywords in different accepted shapes are normalised to
\* the same profile: the profile of a reply in any shape is the profile of
\* the reply that carries the same content in the nested format.
C19_ShapesNormaliseAlike ==
    sanitized # NoProfile =>
        sanitized = validateAndSanitizeConstitution(Build(rawResponse.content, NestedShape))

\* C19 witness: a reply with every item present, the palette under the
\* alternate key color_palette, the tone under voice_tone and the style at
\* the root, has been normalised to a profile that holds its content.
C19_Witness ==
    /\ sanitized # NoProfile
    /\ \A f \in DOMAIN rawResponse.content : rawResponse.content[f] # Undefined
    /\ {"color_palette", "voice_tone", "photography_style", "keywords"}
          \subseteq DOMAIN rawResponse.data.v
    /\ sanitized.visual_identity.color_palette_hex = rawResponse.content.palette
    /\ sanitized.voice.tone = rawResponse.content.tone

\* C20: after the caller aborted the run, runAgentLoop issues no new turn
\* exchange and dispatches no new tool call; calls already in flight may
\* finish, and their results are discarded (nothing more is recorded).
C20_AbortStopsTheRun ==
    [][aborted =>
          /\ exchanges' = exchanges
          /\ pc # "await" => pc' # "await"
          /\ history' = history]_vars

\* the action events written so far, in order
ActionEvents == SelectSeq(events, LAMBDA e : e.type = "action")

\* C21: onAction is called exactly once for each appended AgentAction, right
\* after it is appended and before the batch is sent: at every step the
\* reported actions are the recorded actions, in history order.
C21_OnActionOncePerAction ==
    /\ Len(ActionEvents) = Len(history)
    /\ \A k \in 1..Len(history) : ActionEvents[k].tool = history[k].tool

\* C21 witness: a batch of two different tools has been merged and is about
\* to be sent to the model.
C21_Witness ==
    /\ pc = "send"
    /\ Len(functionCalls) = 2
    /\ functionCalls[1].name # functionCalls[2].name
    /\ Len(ActionEvents) >= 2

TerminalTypes == {"complete", "error"}

\* C22: the event stream is one start event, then the action events in
\* history order, then exactly one terminal event (complete or error), after
\* which the stream is closed; nothing is written after the terminal event.
C22_EventStreamShape ==
    /\ stream = "idle" => events = <<>>
    /\ stream # "idle" => Len(events) >= 1 /\ events[1].type = "start"
    /\ \A k \in 2..Len(events) :
          \/ events[k].type = "action"
          \/ /\ events[k].type \in TerminalTypes
             /\ k = Len(events)
             /\ stream = "closed"
    /\ stream = "closed" => events[Len(events)].type \in TerminalTypes
    /\ \A k \in 1..Len(ActionEvents) :
          k <= Len(history) /\ ActionEvents[k].tool = history[k].tool

\* C22 witness: a run that reported three actions ended with an error and
\* the stream was closed after the error event.
C22_Witness ==
    /\ stream = "closed"
    /\ Len(events) = 5
    /\ events[5].type = "error"
    /\ \A k \in 2..4 : events[k].type = "action"

\* the parts of a message that carry a thoughtSignature
SignedParts(parts) == {k \in 1..Len(parts) : "thoughtSignature" \in DOMAIN parts[k]}

\* C23: the thoughtSignature of a model turn stays in the model message where
\* it was received.  No functionResponse part and no message sent to the model
\* carries one; the chat session that received a turn keeps its signature in
\* that turn's model message, and it is the session the results of the turn
\* are sent through: while a batch is processed or sent, the last message of
\* the session is the model turn that requested it.
C23_SignatureStaysInPlace ==
    /\ SignedParts(functionResponses) = {}
    /\ \A k \in 1..Len(chat) :
          IF k % 2 = 1
          THEN chat[k].role = "user" /\ SignedParts(chat[k].parts) = {}
          ELSE chat[k].role = "model"
    /\ \A k \in 1..Len(history) :
          LET s == history[k].thoughtSignature
          IN  /\ s # NoSignature
              /\ 2 * s <= Len(chat)
              /\ chat[2 * s].thoughtSignatures = <<s>>
    /\ pc \in {"await", "send"} =>
          /\ Len(chat) >= 2
          /\ chat[Len(chat)].thoughtSignatures = response.thoughtSignatures
          /\ response.thoughtSignatures = <<toolTurns>>

C23_Witness ==
    /\ pc = "send"
    /\ Len(chat) = 4
    /\ Len(chat[3].parts) = 2
    /\ chat[2].thoughtSignatures = <<1>>
    /\ chat[4].thoughtSignatures = <<2>>
    /\ history[Len(history)].thoughtSignature = 2

\* the calls of the current batch that name the tool
CallsOf(tool) == {k \in 1..Len(functionCalls) : functionCalls[k].name = tool}

\* the entries of the current batch recorded for the tool
EntriesOf(tool) == {k \in 1..Len(NewEntries) : NewEntries[k].tool = tool}

\* C25: generate_image never throws.  When every try failed its result has
\* success = false and retry_suggested = true; the result is recorded in the
\* history and sent back to the model, and a turn that only asked for
\* generate_image goes on to the next exchange.
C25_GenerateFailsSoftly ==
    /\ thrown = "executor" => CallsOf("generate_image") # 1..Len(functionCalls)
    /\ \A k \in CallsOf("generate_image") \cap DOMAIN toolResults :
          LET r == toolResults[k]
          IN  \/ r.result.success /\ r.newState.currentImage # NullImage
              \/ /\ ~r.result.success
                 /\ r.result.retry_suggested
                 /\ r.newState.currentImage = dispatchState.currentImage
    /\ pc = "send" =>
          \A k \in EntriesOf("generate_image") :
              /\ NewEntries[k].output = toolResults[k].result
              /\ functionResponses[k].name = "generate_image"
              /\ functionResponses[k].response.success = toolResults[k].result.success

C25_Witness ==
    /\ pc = "send"
    /\ functionCalls = <<Generate>>
    /\ ~history[Len(history)].output.success
    /\ history[Len(history)].output.retry_suggested
    /\ ~functionResponses[1].response.success

C27_SearchFailsSoftly ==
    /\ thrown = "executor" => CallsOf("search_trends") # 1..Len(functionCalls)
    /\ \A k \in CallsOf("search_trends") \cap DOMAIN toolResults :
          /\ toolResults[k].result.search_results \in {"", "summary"}
          /\ toolResults[k].newState = dispatchState
    /\ (pc = "send" /\ functionCalls = <<Search>>) =>
          /\ state = dispatchState
          /\ history[Len(history)].output = toolResults[1].result

C27_Witness ==
    /\ pc = "send"
    /\ functionCalls = <<Search>>
    /\ history[Len(history)].output.search_results = ""
    /\ state = dispatchState

\* the turn being looked at by the loop carries no tool call
ZeroCallTurn == pc = "loop" /\ LoopContinues(i) /\ response.candidate /\ Len(response.calls) = 0

\* C28: when a model turn contains zero tool calls the loop ends: the next
\* step of the run returns the fall-through bundle, whose history is exactly
\* the actions recorded so far; nothing is dispatched, recorded or sent, and
\* nothing is thrown.
C28_ZeroCallsEndsTheLoop ==
    [][ZeroCallTurn =>
          /\ pc' = "returned"
          /\ thrown' = "none"
          /\ bundle'.exit = "fallthrough"
          /\ bundle'.history = history
          /\ bundle'.success = (state.currentImage # NullImage)
          /\ UNCHANGED <<history, state, functionCalls, toolResults, exchanges, events, chat>>]_vars

C28_Witness ==
    /\ pc = "returned"
    /\ response.candidate
    /\ Len(response.calls) = 0
    /\ i = 1
    /\ bundle.exit = "fallthrough"
    /\ Len(history) = 2
    /\ bundle.history = history

\* an item of the style profile held in state.constitution
ProfileItem(c, item) == [given |-> TRUE, value |-> [profile |-> c, item |-> item]]

\* the model omitted every style constraint of a generate_image call
StyleOmitted(args) ==
    {"style_guide", "color_palette", "forbidden_elements"} \cap DOMAIN args = {}

\* C29: when the model calls generate_image without style_guide,
\* color_palette and forbidden_elements and state.constitution is non-null,
\* the generation request uses the style, palette and forbidden elements of
\* the state's profile.
C29_GenerateFallsBackToProfile ==
    \A k \in CallsOf("generate_image") \cap DOMAIN toolResults :
        (StyleOmitted(functionCalls[k].args) /\ dispatchState.constitution # "null") =>
            LET c == dispatchState.constitution
                o == toolResults[k].request.options
            IN  /\ o.styleGuide = ProfileItem(c, "style_description")
                /\ o.colorPalette = ProfileItem(c, "color_palette_hex")
                /\ o.forbiddenElements = ProfileItem(c, "forbidden_elements")
                /\ toolResults[k].request.sections =
                      {"prompt", "STYLE GUIDE", "COLOR PALETTE", "FORBIDDEN"}

(***************************************************************************)
(* analyzeCanvasForConstitution: the request built from the canvas         *)
(***************************************************************************)
\* Largest number of images with a data URL on the canvas.
MaxDataImages == 11

\* Largest number of elements of every other kind on the canvas.
MaxOtherElements == 2

\* Math.min(imageElements.length, 10)
maxInlineImages == 10

\* n canvas elements of one kind, numbered from first
ElementsOf(type, url, first, n) ==
    [k \in 1..n |-> [id |-> first + k - 1, type |-> type, url |-> url]]

\* A canvas: images with a data URL, images with an http URL, images with
\* any other URL, and notes.
Canvas(d, h, b, n) ==
    ElementsOf("image", "data", 1, d) \o ElementsOf("image", "http", d + 1, h)
    \o ElementsOf("image", "blob", d + h + 1, b) \o ElementsOf("note", "none", d + h + b + 1, n)

Canvases ==
    {Canvas(d, h, b, n) : d \in 0..MaxDataImages, h \in 0..MaxOtherElements,
                          b \in 0..MaxOtherElements, n \in 0..MaxOtherElements} \ {<<>>}

\* the element scan: images whose URL is a data URL
imageElements(els) == SelectSeq(els, LAMBDA el : el.type = "image" /\ el.url = "data")

\* the element scan: external images, notes and colours are noted as text
textDescriptions(els) ==
    SelectSeq(els, LAMBDA el : \/ el.type = "image" /\ el.url = "http"
                               \/ el.type \in {"note", "color"})

maxImages(imgs) == IF Len(imgs) < maxInlineImages THEN Len(imgs) ELSE maxInlineImages

\* the parts of the request: the prompt, then an inlineData part and a label
\* for each of the first maxImages images, then the warning when there is no image
BuildContentParts(els) ==
    LET imgs  == imageElements(els)
        texts == textDescriptions(els)
    IN  <<[text |-> "analysisPrompt", imageCount |-> Len(imgs),
           context |-> {texts[k].id : k \in 1..Len(texts)}]>>
        \o [k \in 1..(2 * maxImages(imgs)) |->
               IF k % 2 = 1 THEN [inlineData |-> imgs[(k + 1) \div 2].id]
               ELSE [text |-> "label", image |-> imgs[k \div 2].id]]
        \o (IF Len(imgs) = 0 THEN <<[text |-> "warning"]>> ELSE <<>>)

\* analyzeCanvasForConstitution(elements) builds its request
AnalyzeCanvas ==
    /\ elements # <<>>
    /\ contentParts = <<>>
    /\ contentParts' = BuildContentParts(elements)
    /\ UNCHANGED <<pc, state, history, canvasElements, savedConstitution, response, i,
                   initialRetry, retryCount, functionCalls, dispatchState,
                   toolResults, finishOrder, functionResponses, bundle, thrown,
                   events, stream, exchanges, toolTurns, maxCalls, histAtDispatch,
                   latestImage, chat, elements, readerVars, aborted, rawResponse,
                   sanitized>>

NextScan == AnalyzeCanvas

InitScan ==
    /\ LoopInit
    /\ canvasElements = 2
    /\ savedConstitution = "null"
    /\ rawResponse = NoResponse
    /\ sanitized = NoProfile
    /\ elements \in Canvases
    /\ contentParts = <<>>
    /\ NoReader

SpecScan == InitScan /\ [][NextScan]_vars

\* the images the request carries as inline data
InlineImages ==
    {contentParts[p].inlineData : p \in {q \in 1..Len(contentParts) :
                                            "inlineData" \in DOMAIN contentParts[q]}}

\* C30: every image element supplied by the caller is included in the
\* style-extraction request, whatever the number of images: it is sent as
\* inline data, or it is named in the context the prompt carries.
C30_EveryImageIncluded ==
    contentParts # <<>> =>
        \A k \in 1..Len(elements) :
            elements[k].type = "image" =>
                elements[k].id \in InlineImages \cup contentParts[1].context

\* the positions of the history that record the tool
HistoryOf(tool) == {k \in 1..Len(history) : history[k].tool = tool}

\* C31: with a cached profile state.constitution equals it from the first
\* state; as long as no analyze_canvas result has been recorded it stays the
\* cached profile, an audit_compliance call on an existing image succeeds,
\* and the bundle returned carries the cached profile.
C31_CachedProfileIsUsed ==
    (savedConstitution = "saved" /\ HistoryOf("analyze_canvas") = {}) =>
        /\ state.constitution = "saved"
        /\ RunReturned => bundle.constitution = "saved"
        /\ \A k \in CallsOf("audit_compliance") \cap DOMAIN toolResults :
              dispatchState.currentImage # NullImage => toolResults[k].result.success

C31_Witness ==
    /\ RunReturned
    /\ savedConstitution = "saved"
    /\ HistoryOf("analyze_canvas") = {}
    /\ \E k \in HistoryOf("audit_compliance") : history[k].output.success
    /\ bundle.constitution = "saved"

\* the call whose result the next iteration of the merge loop merges
MergingCall == functionCalls[Len(functionResponses) + 1]

\* C32: state.constitution changes only when the result of an
\* analyze_canvas call is merged; no other merge changes or clears it, and
\* once it is non-null it stays non-null.
C32_ConstitutionWrittenOnlyByAnalyze ==
    [][/\ state'.constitution # state.constitution =>
             /\ pc = "await"
             /\ Len(functionResponses) < Len(functionCalls)
             /\ MergingCall.name = "analyze_canvas"
       /\ state.constitution # "null" => state'.constitution # "null"]_vars

\* C33: every run of runAgentLoop terminates, by returning a bundle or by
\* throwing, when every remote call eventually returns or fails.
C33_RunTerminates == <>RunEnded

C33_Witness ==
    /\ RunReturned
    /\ i = maxIterations
    /\ exchanges = maxIterations + 1
    /\ Len(history) >= maxIterations

\* C34: the initial turn exchange is attempted at most 4 times and each later
\* exchange at most 3 times.  The retry counters count the failed attempts of
\* the exchange in progress: an attempt is pending only while fewer than 4
\* (resp. 3) attempts have failed, and after the last failed attempt the run
\* has ended, by the throw or by the graceful return.
C34_RetriesAreBounded ==
    /\ initialRetry \in 0..4
    /\ pc = "init" => initialRetry < 4
    /\ initialRetry = 4 => pc = "thrown" /\ thrown = "init"
    /\ initialRetry > 0 => pc \in {"init", "thrown"} /\ exchanges = 1
    /\ retryCount \in 0..3
    /\ pc = "send" => retryCount < 3
    /\ retryCount = 3 =>
          \/ pc = "thrown" /\ thrown = "send"
          \/ pc = "returned" /\ bundle.exit = "graceful"
    /\ retryCount > 0 => pc \in {"send", "thrown", "returned"}

C34_Witness ==
    /\ pc = "thrown"
    /\ thrown = "send"
    /\ retryCount = 3
    /\ exchanges = 3

\* C35: in every reachable state state.attempts equals the number of
\* generate_image actions recorded in the history.
C35_AttemptsCountGenerations ==
    state.attempts = Cardinality(HistoryOf("generate_image"))

\* the calls of the current batch whose executor has not settled
Running == (1..Len(functionCalls)) \ DOMAIN toolResults

\* C36: no turn exchange is sent while a tool call of the current batch is
\* still running.  While the batch is awaited or merged no message has been
\* sent since the turn that requested it (the session ends with that turn);
\* the function responses are sent only when every call has settled and every
\* result has been merged, recorded and answered, in request order.
C36_TurnsAreSequential ==
    /\ pc \in {"await", "send"} =>
          /\ Len(functionCalls) > 0
          /\ toolTurns = i + 1
          /\ Len(chat) = 2 * toolTurns
    /\ (pc = "await" /\ Len(functionResponses) > 0) => Running = {}
    /\ pc = "send" =>
          /\ Running = {}
          /\ Len(functionResponses) = Len(functionCalls)
          /\ Len(NewEntries) = Len(functionCalls)
          /\ \A k \in 1..Len(functionCalls) :
                functionResponses[k].name = functionCalls[k].name

\* two calls of one turn ran concurrently: the second settled first
C36_Witness ==
    /\ pc = "send"
    /\ Len(functionCalls) = 2
    /\ finishOrder = <<2, 1>>
    /\ i = 1

\* the for-loop has run maxIterations times
CeilingReached == pc = "loop" /\ i = maxIterations

\* C37: when the iteration ceiling is reached without a complete_task call
\* runAgentLoop returns, and does not throw, a bundle with success = true
\* exactly when state.currentImage is non-null, with that image and the full
\* history.
C37_CeilingReturnsBundle ==
    [][CeilingReached =>
          /\ pc' = "returned"
          /\ thrown' = "none"
          /\ bundle'.success = (state.currentImage # NullImage)
          /\ bundle'.image = state.currentImage
          /\ bundle'.history = history
          /\ HistoryOf("complete_task") = {}
          /\ UNCHANGED <<state, history>>]_vars

C37_Witness ==
    /\ RunReturned
    /\ i = maxIterations
    /\ bundle.exit = "fallthrough"
    /\ bundle.success
    /\ bundle.image = state.currentImage
    /\ Len(bundle.history) = maxIterations

\* C38: state.auditScore is always null or a number between 0 and 100:
\* every score an audit_compliance call reports lies in 0..100, whatever the
\* audit service replied, and a failed call or an unparseable reply is
\* reported as score 50 with pass = false, without throwing.
C38_AuditScoreInRange ==
    /\ state.auditScore = NullScore \/ state.auditScore \in 0..100
    /\ thrown = "executor" => CallsOf("audit_compliance") # 1..Len(functionCalls)
    /\ \A k \in CallsOf("audit_compliance") \cap DOMAIN toolResults :
          LET r == toolResults[k]
          IN  /\ r.newState.auditScore = NullScore \/ r.newState.auditScore \in 0..100
              /\ r.reply = AuditFailure =>
                    /\ r.result.compliance_score = 50
                    /\ ~r.result.pass
                    /\ r.newState.auditScore = 50

C38_Witness ==
    /\ state.auditScore = 100
    /\ \E k \in HistoryOf("audit_compliance") :
          history[k].output.success /\ history[k].output.compliance_score = 100

(***************************************************************************)
(* The dashboard's stream reader                                           *)
(***************************************************************************)
\* Largest number of action events in a stream.
MaxActionEvents == 2

\* The byte stream is a sequence of pieces: every line of an event is two
\* pieces of text, so that a chunk can end inside a line, followed by a
\* line feed.
LF == [kind |-> "lf"]
Piece(kind, type, n, p) == [kind |-> kind, type |-> type, n |-> n, p |-> p]

\* the number of pieces sendEvent writes for one event
PiecesPerEvent == 7

\* sendEvent: `event: ${event}\ndata: ${JSON.stringify(data)}\n\n`, for
\* the n-th event of the stream
Message(ev, n) ==
    <<Piece("event", ev.type, n, 1), Piece("event", ev.type, n, 2), LF,
      Piece("data", ev.type, n, 1), Piece("data", ev.type, n, 2), LF, LF>>

\* the stream the route writes for a list of events
Encode(evs) ==
    [j \in 1..(PiecesPerEvent * Len(evs)) |->
        Message(evs[((j - 1) \div PiecesPerEvent) + 1],
                ((j - 1) \div PiecesPerEvent) + 1)[((j - 1) % PiecesPerEvent) + 1]]

\* the event lists the route can write: start, actions, then complete or error
EventLists ==
    {<<[type |-> "start"]>> \o [k \in 1..a |-> [type |-> "action"]] \o <<[type |-> t]>> :
        a \in 0..MaxActionEvents, t \in {"complete", "error"}}

\* text.split("\n"): the lines of the text, the last one being what follows
\* the last line feed
RECURSIVE split(_, _, _)
split(text, line, lines) ==
    IF text = <<>> THEN Append(lines, line)
    ELSE IF Head(text) = LF THEN split(Tail(text), <<>>, Append(lines, line))
    ELSE split(Tail(text), Append(line, Head(text)), lines)

\* line.startsWith("event: ") and line.startsWith("data: ")
startsWith(line, kind) == Len(line) > 0 /\ line[1].kind = kind /\ line[1].p = 1

\* the for-loop over the lines of one chunk: the events handed to the handler
RECURSIVE ScanLines(_, _, _)
ScanLines(lines, currentEvent, out) ==
    IF lines = <<>> THEN out
    ELSE LET line == Head(lines)
         IN  IF startsWith(line, "event")
             THEN ScanLines(Tail(lines), line[1].type, out)
             ELSE IF startsWith(line, "data") /\ currentEvent # ""
             THEN ScanLines(Tail(lines), "",
                            Append(out, [type |-> currentEvent, data |-> line[1].n]))
             ELSE ScanLines(Tail(lines), currentEvent, out)

\* reader.read() returns the next n pieces of the stream; one iteration of
\* the while-loop: currentEvent is declared inside the iteration
ReadChunk ==
    /\ wire # <<>>
    /\ \E n \in 1..Len(wire) :
          LET lines == split(buffer \o SubSeq(wire, 1, n), <<>>, <<>>)
          IN  /\ wire' = SubSeq(wire, n + 1, Len(wire))
              /\ buffer' = lines[Len(lines)]
              /\ handled' = handled \o ScanLines(SubSeq(lines, 1, Len(lines) - 1), "", <<>>)
    /\ UNCHANGED <<pc, state, history, canvasElements, savedConstitution, response, i,
                   initialRetry, retryCount, functionCalls, dispatchState,
                   toolResults, finishOrder, functionResponses, bundle, thrown,
                   events, stream, exchanges, toolTurns, maxCalls, histAtDispatch,
                   latestImage, chat, elements, contentParts, written, aborted,
                   rawResponse, sanitized>>

NextReader == ReadChunk

\* the route has written its events and the dashboard starts reading
InitReader ==
    /\ LoopInit
    /\ canvasElements = 2
    /\ savedConstitution = "null"
    /\ rawResponse = NoResponse
    /\ sanitized = NoProfile
    /\ NoScan
    /\ written \in EventLists
    /\ wire = Encode(written)
    /\ buffer = <<>>
    /\ handled = <<>>

SpecReader == InitReader /\ [][NextReader]_vars

\* C39: the dashboard's stream reader hands every event the route wrote to
\* its handler exactly once and in order, however the stream is split into
\* chunks: when the whole stream has been read, the events handled are the
\* events written.
C39_EveryEventHandledOnce ==
    (written # <<>> /\ wire = <<>>) =>
        handled = [k \in 1..Len(written) |-> [type |-> written[k].type, data |-> k]]

\* the tools executeTool knows
RegisteredTools ==
    {"analyze_canvas", "generate_image", "audit_compliance", "refine_prompt",
     "search_trends", "complete_task"}

\* the calls of the current batch that name no registered tool
UnknownCalls == {k \in 1..Len(functionCalls) : functionCalls[k].name \notin RegisteredTools}

\* C40: a tool call whose name is not a registered tool returns an error
\* result without throwing and hands back the state it was given; the action
\* is recorded, reported through onAction and answered to the model, and the
\* run goes on to the next exchange.
C40_UnknownToolFailsSoftly ==
    /\ thrown = "executor" => UnknownCalls # 1..Len(functionCalls)
    /\ \A k \in UnknownCalls \cap DOMAIN toolResults :
          /\ toolResults[k].result = [error |-> "Unknown tool"]
          /\ toolResults[k].newState = dispatchState
    /\ (pc = "send" /\ UnknownCalls = 1..Len(functionCalls)) =>
          /\ state = dispatchState
          /\ \A k \in 1..Len(functionCalls) :
                /\ NewEntries[k].tool = functionCalls[k].name
                /\ NewEntries[k].output = [error |-> "Unknown tool"]
                /\ functionResponses[k] =
                      [name |-> functionCalls[k].name, response |-> [error |-> "Unknown tool"]]
                /\ ActionEvents[histAtDispatch + k].tool = functionCalls[k].name

C40_Witness ==
    /\ pc = "send"
    /\ functionCalls = <<Unknown>>
    /\ history[Len(history)].tool = "make_video"
    /\ events[Len(events)] = [type |-> "action", tool |-> "make_video"]
    /\ functionResponses[1].response = [error |-> "Unknown tool"]

====
